---- MODULE Spec2Model ----
(***************************************************************************)
(* Model of dbmeta/db_utils.go: the SQL statement generators over a table  *)
(* metadata view.  A generated statement is kept as the sequence of pieces *)
(* the generator wrote to its bytes.Buffer; Text renders that sequence to  *)
(* the exact string buf.String() returns.                                  *)
(***************************************************************************)
EXTENDS Integers, Sequences, FiniteSets

\* Largest number of columns of a table.
MaxCols == 3

\* Column names and table names the tables are drawn from.
ColNames == {"id", "name", "deleted_at", "DeletedAt", "Deleted_At"}
TableNames == {"users", "t"}

\* ColumnType() of a column: the declared type, here fixed by the name.
ColumnType(name) ==
    CASE name = "id" -> "int"
      [] name = "name" -> "text"
      [] OTHER -> "timestamptz"

\* A column metadata view: Name(), ColumnType(), IsPrimaryKey(), IsAutoIncrement().
ColumnMeta ==
    { [name |-> n, typ |-> ColumnType(n), pk |-> p, auto |-> a] :
        n \in ColNames, p \in BOOLEAN, a \in BOOLEAN }

\* Columns(): ordered sequences of columns with pairwise distinct names.
ColumnLists ==
    UNION { { cs \in [1..n -> ColumnMeta] :
                \A i \in 1..n : \A j \in 1..n : cs[i].name = cs[j].name => i = j } :
            n \in 0..MaxCols }

\* A table metadata view: TableName() and Columns().
DbTableMeta == { [name |-> t, cols |-> cs] : t \in TableNames, cs \in ColumnLists }

(***************************************************************************)
(* fmt.Sprintf("%d", n) for n >= 0.                                        *)
(***************************************************************************)
Digit == <<"0", "1", "2", "3", "4", "5", "6", "7", "8", "9">>

RECURSIVE Itoa(_)
Itoa(n) == IF n < 10 THEN Digit[n + 1] ELSE Itoa(n \div 10) \o Digit[(n % 10) + 1]

(***************************************************************************)
(* Placeholders.  sigil is the first character written ("$", "@" or none), *)
(* body the rest; num is the number formatted into a "$%d" placeholder.    *)
(***************************************************************************)
Positional(n) == [sigil |-> "$", num |-> n, body |-> Itoa(n)]
Named(body) == [sigil |-> "@", num |-> 0, body |-> body]
DefaultParam == [sigil |-> "", num |-> 0, body |-> "default"]
NoParam == [sigil |-> "", num |-> 0, body |-> ""]

ParamText(p) == p.sigil \o p.body

(***************************************************************************)
(* Pieces written to the buffer.                                           *)
(*   lit  : a literal string                                               *)
(*   cond : fmt.Sprintf(" %s = %s", col, param)                            *)
(*   any  : fmt.Sprintf(" %s = ANY(%s::%s[])", col, param, type)           *)
(*   col  : fmt.Sprintf(" %s", col)                                        *)
(*   val  : fmt.Sprintf("%s", param)                                       *)
(***************************************************************************)
Lit(s) == [k |-> "lit", s |-> s, col |-> "", p |-> NoParam, typ |-> ""]
Cond(c, p) == [k |-> "cond", s |-> "", col |-> c, p |-> p, typ |-> ""]
AnyCond(c, p, t) == [k |-> "any", s |-> "", col |-> c, p |-> p, typ |-> t]
ColPiece(c) == [k |-> "col", s |-> "", col |-> c, p |-> NoParam, typ |-> ""]
ValPiece(p) == [k |-> "val", s |-> "", col |-> "", p |-> p, typ |-> ""]

PieceText(x) ==
    CASE x.k = "lit" -> x.s
      [] x.k = "cond" -> " " \o x.col \o " = " \o ParamText(x.p)
      [] x.k = "any" -> " " \o x.col \o " = ANY(" \o ParamText(x.p) \o "::" \o x.typ \o "[])"
      [] x.k = "col" -> " " \o x.col
      [] x.k = "val" -> ParamText(x.p)

\* buf.String(): the concatenation of everything written.
RECURSIVE Text(_)
Text(buf) == IF buf = <<>> THEN "" ELSE PieceText(Head(buf)) \o Text(Tail(buf))

\* A generator's result: the SQL pieces, and the error (nil or its message).
Ok(buf) == [sql |-> buf, isErr |-> FALSE, msg |-> ""]
Fail(msg) == [sql |-> <<>>, isErr |-> TRUE, msg |-> msg]

NoPrimaryKeyMsg(dbTable) ==
    "table " \o dbTable.name \o " does not have a primary key, cannot generate sql"
NoDeletedAtMsg(dbTable) ==
    "table " \o dbTable.name \o " does not have a deleted at column, cannot generate sql"

(***************************************************************************)
(* Key inspection helpers.                                                 *)
(***************************************************************************)
RECURSIVE PrimaryKeyCountFrom(_, _)
PrimaryKeyCountFrom(cols, i) ==
    IF i > Len(cols) THEN 0
    ELSE (IF cols[i].pk THEN 1 ELSE 0) + PrimaryKeyCountFrom(cols, i + 1)

PrimaryKeyCount(dbTable) == PrimaryKeyCountFrom(dbTable.cols, 1)

RECURSIVE PrimaryKeyNamesFrom(_, _)
PrimaryKeyNamesFrom(cols, i) ==
    IF i > Len(cols) THEN <<>>
    ELSE (IF cols[i].pk THEN <<cols[i].name>> ELSE <<>>) \o PrimaryKeyNamesFrom(cols, i + 1)

PrimaryKeyNames(dbTable) == PrimaryKeyNamesFrom(dbTable.cols, 1)

RECURSIVE NonPrimaryKeyNamesFrom(_, _)
NonPrimaryKeyNamesFrom(cols, i) ==
    IF i > Len(cols) THEN <<>>
    ELSE (IF ~cols[i].pk THEN <<cols[i].name>> ELSE <<>>) \o NonPrimaryKeyNamesFrom(cols, i + 1)

NonPrimaryKeyNames(dbTable) == NonPrimaryKeyNamesFrom(dbTable.cols, 1)

(***************************************************************************)
(* GenerateHardDeleteSQL                                                   *)
(***************************************************************************)
HardDeleteParam(col, addedKey, namedParams) ==
    IF namedParams THEN Named(col.name \o "_" \o Itoa(addedKey))
    ELSE Positional(addedKey)

\* After a key is written and addedKey incremented: is " AND" written?
HardDeleteWritesAnd(addedKey, primaryCnt) == addedKey < primaryCnt

RECURSIVE HardDeleteLoop(_, _, _, _, _, _)
HardDeleteLoop(cols, i, namedParams, primaryCnt, addedKey, buf) ==
    IF i > Len(cols) THEN buf
    ELSE IF cols[i].pk
    THEN LET b1 == Append(buf, Cond(cols[i].name, HardDeleteParam(cols[i], addedKey, namedParams)))
             b2 == IF HardDeleteWritesAnd(addedKey + 1, primaryCnt)
                   THEN Append(b1, Lit(" AND")) ELSE b1
         IN HardDeleteLoop(cols, i + 1, namedParams, primaryCnt, addedKey + 1, b2)
    ELSE HardDeleteLoop(cols, i + 1, namedParams, primaryCnt, addedKey, buf)

GenerateHardDeleteSQL(dbTable, namedParams) ==
    LET primaryCnt == PrimaryKeyCount(dbTable) IN
    IF primaryCnt = 0 THEN Fail(NoPrimaryKeyMsg(dbTable))
    ELSE Ok(HardDeleteLoop(dbTable.cols, 1, namedParams, primaryCnt, 1,
                           << Lit("DELETE FROM \"" \o dbTable.name \o "\" where") >>))

(***************************************************************************)
(* GenerateSoftDeleteSQL                                                   *)
(***************************************************************************)
\* Variant: only the snake_case spelling is recognised.
IsDeletedAtName_SnakeOnly(name) == name = "deleted_at"

IsDeletedAtName(name) == name = "deleted_at" \/ name = "DeletedAt"

SoftDeleteSetParam(col, setCol, namedParams) ==
    IF namedParams THEN Named("upd_" \o col.name \o "_" \o Itoa(setCol))
    ELSE Positional(setCol)

\* The SET loop; yields the buffer and the counter it leaves.
RECURSIVE SoftDeleteSetLoop(_, _, _, _, _)
SoftDeleteSetLoop(cols, i, namedParams, setCol, buf) ==
    IF i > Len(cols) THEN [setCol |-> setCol, buf |-> buf]
    ELSE IF ~IsDeletedAtName(cols[i].name)
    THEN SoftDeleteSetLoop(cols, i + 1, namedParams, setCol, buf)
    ELSE LET b1 == IF setCol # 1 THEN Append(buf, Lit(",")) ELSE buf
             b2 == Append(b1, Cond(cols[i].name, SoftDeleteSetParam(cols[i], setCol, namedParams)))
         IN SoftDeleteSetLoop(cols, i + 1, namedParams, setCol + 1, b2)

\* Variant: the WHERE placeholder ignores namedParams.
SoftDeleteWhereParam_AlwaysPositional(col, setCol, namedParams) == Positional(setCol)

SoftDeleteWhereParam(col, setCol, namedParams) ==
    IF namedParams THEN Named(col.name) ELSE Positional(setCol)

RECURSIVE SoftDeleteWhereLoop(_, _, _, _, _)
SoftDeleteWhereLoop(cols, i, namedParams, setCol, buf) ==
    IF i > Len(cols) THEN buf
    ELSE IF cols[i].pk
    THEN SoftDeleteWhereLoop(cols, i + 1, namedParams, setCol + 1,
             Append(buf, Cond(cols[i].name, SoftDeleteWhereParam(cols[i], setCol, namedParams))))
    ELSE SoftDeleteWhereLoop(cols, i + 1, namedParams, setCol, buf)

\* Variant: the WHERE loop starts its own counter at 1.
GenerateSoftDeleteSQL_ResetCounter(dbTable, namedParams) ==
    LET primaryCnt == PrimaryKeyCount(dbTable) IN
    IF primaryCnt = 0 THEN Fail(NoPrimaryKeyMsg(dbTable))
    ELSE LET set == SoftDeleteSetLoop(dbTable.cols, 1, namedParams, 1,
                        << Lit("UPDATE \"" \o dbTable.name \o "\" set") >>)
         IN IF set.setCol = 1 THEN Fail(NoDeletedAtMsg(dbTable))
            ELSE Ok(SoftDeleteWhereLoop(dbTable.cols, 1, namedParams, 1,
                                        Append(set.buf, Lit(" WHERE"))))

GenerateSoftDeleteSQL(dbTable, namedParams) ==
    LET primaryCnt == PrimaryKeyCount(dbTable) IN
    IF primaryCnt = 0 THEN Fail(NoPrimaryKeyMsg(dbTable))
    ELSE LET set == SoftDeleteSetLoop(dbTable.cols, 1, namedParams, 1,
                        << Lit("UPDATE \"" \o dbTable.name \o "\" set") >>)
         IN IF set.setCol = 1 THEN Fail(NoDeletedAtMsg(dbTable))
            ELSE Ok(SoftDeleteWhereLoop(dbTable.cols, 1, namedParams, set.setCol,
                                        Append(set.buf, Lit(" WHERE"))))

(***************************************************************************)
(* GenerateUpdateSQL                                                       *)
(***************************************************************************)
UpdateSetParam(col, setCol, namedParams) ==
    IF namedParams THEN Named(col.name) ELSE Positional(setCol)

RECURSIVE UpdateSetLoop(_, _, _, _, _)
UpdateSetLoop(cols, i, namedParams, setCol, buf) ==
    IF i > Len(cols) THEN [setCol |-> setCol, buf |-> buf]
    ELSE IF ~cols[i].pk
    THEN LET b1 == IF setCol # 1 THEN Append(buf, Lit(",")) ELSE buf
             b2 == Append(b1, Cond(cols[i].name, UpdateSetParam(cols[i], setCol, namedParams)))
         IN UpdateSetLoop(cols, i + 1, namedParams, setCol + 1, b2)
    ELSE UpdateSetLoop(cols, i + 1, namedParams, setCol, buf)

\* Variant: the WHERE placeholder is the running counter alone.
UpdateWhereParam_Contiguous(col, addedKey, setCol, namedParams) ==
    IF namedParams THEN Named("where_" \o col.name) ELSE Positional(setCol)

\* Variant: the WHERE placeholder is the key's ordinal alone.
UpdateWhereParam_KeyOrdinal(col, addedKey, setCol, namedParams) ==
    IF namedParams THEN Named("where_" \o col.name) ELSE Positional(addedKey)

UpdateWhereParam(col, addedKey, setCol, namedParams) ==
    IF namedParams THEN Named("where_" \o col.name) ELSE Positional(addedKey + setCol)

UpdateWritesAnd(addedKey, primaryCnt) == addedKey < primaryCnt

RECURSIVE UpdateWhereLoop(_, _, _, _, _, _, _)
UpdateWhereLoop(cols, i, namedParams, primaryCnt, setCol, addedKey, buf) ==
    IF i > Len(cols) THEN buf
    ELSE IF cols[i].pk
    THEN LET b1 == Append(buf, Cond(cols[i].name,
                                    UpdateWhereParam(cols[i], addedKey, setCol, namedParams)))
             b2 == IF UpdateWritesAnd(addedKey + 1, primaryCnt)
                   THEN Append(b1, Lit(" AND")) ELSE b1
         IN UpdateWhereLoop(cols, i + 1, namedParams, primaryCnt, setCol + 1, addedKey + 1, b2)
    ELSE UpdateWhereLoop(cols, i + 1, namedParams, primaryCnt, setCol, addedKey, buf)

GenerateUpdateSQL(dbTable, namedParams) ==
    LET primaryCnt == PrimaryKeyCount(dbTable) IN
    IF primaryCnt = 0 THEN Fail(NoPrimaryKeyMsg(dbTable))
    ELSE LET set == UpdateSetLoop(dbTable.cols, 1, namedParams, 1,
                        << Lit("UPDATE \"" \o dbTable.name \o "\" SET") >>)
         IN Ok(UpdateWhereLoop(dbTable.cols, 1, namedParams, primaryCnt, set.setCol, 1,
                               Append(set.buf, Lit(" WHERE"))))

(***************************************************************************)
(* GenerateInsertSQL.  The loops run over 1-based positions j; i = j - 1   *)
(* is the index of Go's range loop.                                        *)
(***************************************************************************)
InsertColumnSep == ", "

RECURSIVE InsertColumnsLoop(_, _, _, _)
InsertColumnsLoop(cols, j, pastFirst, buf) ==
    IF j > Len(cols) THEN buf
    ELSE IF ~cols[j].auto
    THEN LET b1 == IF pastFirst THEN Append(buf, Lit(InsertColumnSep)) ELSE buf
         IN InsertColumnsLoop(cols, j + 1, TRUE, Append(b1, ColPiece(cols[j].name)))
    ELSE InsertColumnsLoop(cols, j + 1, pastFirst, buf)

\* Variant: the positional placeholder is the 0-based index.
InsertValueParam_ZeroBased(col, i, namedParams) ==
    IF col.pk THEN DefaultParam
    ELSE IF namedParams THEN Named(col.name)
    ELSE Positional(i)

\* Variant: the named placeholder takes precedence over default.
InsertValueParam_NamedFirst(col, i, namedParams) ==
    IF namedParams THEN Named(col.name)
    ELSE IF col.pk THEN DefaultParam
    ELSE Positional(i + 1)

InsertValueParam(col, i, namedParams) ==
    IF col.pk THEN DefaultParam
    ELSE IF namedParams THEN Named(col.name)
    ELSE Positional(i + 1)

RECURSIVE InsertValuesLoop(_, _, _, _, _)
InsertValuesLoop(cols, j, namedParams, pastFirst, buf) ==
    IF j > Len(cols) THEN buf
    ELSE IF ~cols[j].auto
    THEN LET b1 == IF pastFirst THEN Append(buf, Lit(", ")) ELSE buf
         IN InsertValuesLoop(cols, j + 1, namedParams, TRUE,
                Append(b1, ValPiece(InsertValueParam(cols[j], j - 1, namedParams))))
    ELSE InsertValuesLoop(cols, j + 1, namedParams, pastFirst, buf)

GenerateInsertSQL(dbTable, namedParams) ==
    LET primaryCnt == PrimaryKeyCount(dbTable) IN
    IF primaryCnt = 0 THEN Fail(NoPrimaryKeyMsg(dbTable))
    ELSE LET b1 == InsertColumnsLoop(dbTable.cols, 1, FALSE,
                       << Lit("INSERT INTO \"" \o dbTable.name \o "\" (") >>)
             b2 == InsertValuesLoop(dbTable.cols, 1, namedParams, FALSE,
                       Append(b1, Lit(") values ( ")))
         IN Ok(Append(b2, Lit(" )")))

(***************************************************************************)
(* GenerateSelectOneSQL, GenerateSelectMultiSQL, GenerateSelectAllSQL      *)
(***************************************************************************)
SelectOneParam(col, i, namedParams) ==
    IF namedParams THEN Named("where_" \o col.name \o "_" \o Itoa(i + 1))
    ELSE Positional(i + 1)

RECURSIVE SelectOneLoop(_, _, _, _, _)
SelectOneLoop(cols, j, namedParams, pastFirst, buf) ==
    IF j > Len(cols) THEN buf
    ELSE IF cols[j].pk
    THEN LET b1 == IF pastFirst THEN Append(buf, Lit(" AND ")) ELSE buf
         IN SelectOneLoop(cols, j + 1, namedParams, TRUE,
                Append(b1, Cond(cols[j].name, SelectOneParam(cols[j], j - 1, namedParams))))
    ELSE SelectOneLoop(cols, j + 1, namedParams, pastFirst, buf)

GenerateSelectOneSQL(dbTable, namedParams) ==
    LET primaryCnt == PrimaryKeyCount(dbTable) IN
    IF primaryCnt = 0 THEN Fail(NoPrimaryKeyMsg(dbTable))
    ELSE Ok(SelectOneLoop(dbTable.cols, 1, namedParams, FALSE,
                          << Lit("SELECT * FROM \"" \o dbTable.name \o "\" WHERE") >>))

SelectMultiParam(col, i, namedParams) ==
    IF namedParams THEN Named("where_" \o col.name \o "_" \o Itoa(i + 1))
    ELSE Positional(i + 1)

RECURSIVE SelectMultiLoop(_, _, _, _, _)
SelectMultiLoop(cols, j, namedParams, pastFirst, buf) ==
    IF j > Len(cols) THEN buf
    ELSE IF cols[j].pk
    THEN LET b1 == IF pastFirst THEN Append(buf, Lit(" AND ")) ELSE buf
         IN SelectMultiLoop(cols, j + 1, namedParams, TRUE,
                Append(b1, AnyCond(cols[j].name, SelectMultiParam(cols[j], j - 1, namedParams),
                                   cols[j].typ)))
    ELSE SelectMultiLoop(cols, j + 1, namedParams, pastFirst, buf)

GenerateSelectMultiSQL(dbTable, namedParams) ==
    LET primaryCnt == PrimaryKeyCount(dbTable) IN
    IF primaryCnt = 0 THEN Fail(NoPrimaryKeyMsg(dbTable))
    ELSE Ok(SelectMultiLoop(dbTable.cols, 1, namedParams, FALSE,
                            << Lit("SELECT * FROM \"" \o dbTable.name \o "\" WHERE") >>))

\* Variant: the primary-key check is left out.
GenerateSelectAllSQL_Unchecked(dbTable) ==
    Ok(<< Lit("SELECT * FROM \"" \o dbTable.name \o "\"") >>)

GenerateSelectAllSQL(dbTable) ==
    LET primaryCnt == PrimaryKeyCount(dbTable) IN
    IF primaryCnt = 0 THEN Fail(NoPrimaryKeyMsg(dbTable))
    ELSE Ok(<< Lit("SELECT * FROM \"" \o dbTable.name \o "\"") >>)

(***************************************************************************)
(* The state: the table metadata view the caller holds, and the call made  *)
(* on it with its argument and its result.  The generators keep no state   *)
(* between calls, so a behaviour is one call on one table: any later call  *)
(* computes what a first call on the same table computes.                  *)
(***************************************************************************)
VARIABLES dbTable, fn, namedParams, ret

vars == <<dbTable, fn, namedParams, ret>>

Init ==
    /\ dbTable \in DbTableMeta
    /\ fn = "none"
    /\ namedParams = FALSE
    /\ ret = Ok(<<>>)

CallHardDelete ==
    \E np \in BOOLEAN :
        /\ fn = "none"
        /\ fn' = "GenerateHardDeleteSQL"
        /\ namedParams' = np
        /\ ret' = GenerateHardDeleteSQL(dbTable, np)
        /\ UNCHANGED dbTable

CallSoftDelete ==
    \E np \in BOOLEAN :
        /\ fn = "none"
        /\ fn' = "GenerateSoftDeleteSQL"
        /\ namedParams' = np
        /\ ret' = GenerateSoftDeleteSQL(dbTable, np)
        /\ UNCHANGED dbTable

CallUpdate ==
    \E np \in BOOLEAN :
        /\ fn = "none"
        /\ fn' = "GenerateUpdateSQL"
        /\ namedParams' = np
        /\ ret' = GenerateUpdateSQL(dbTable, np)
        /\ UNCHANGED dbTable

CallInsert ==
    \E np \in BOOLEAN :
        /\ fn = "none"
        /\ fn' = "GenerateInsertSQL"
        /\ namedParams' = np
        /\ ret' = GenerateInsertSQL(dbTable, np)
        /\ UNCHANGED dbTable

CallSelectOne ==
    \E np \in BOOLEAN :
        /\ fn = "none"
        /\ fn' = "GenerateSelectOneSQL"
        /\ namedParams' = np
        /\ ret' = GenerateSelectOneSQL(dbTable, np)
        /\ UNCHANGED dbTable

CallSelectMulti ==
    \E np \in BOOLEAN :
        /\ fn = "none"
        /\ fn' = "GenerateSelectMultiSQL"
        /\ namedParams' = np
        /\ ret' = GenerateSelectMultiSQL(dbTable, np)
        /\ UNCHANGED dbTable

\* GenerateSelectAllSQL takes no namedParams argument.
CallSelectAll ==
    /\ fn = "none"
    /\ fn' = "GenerateSelectAllSQL"
    /\ namedParams' = FALSE
    /\ ret' = GenerateSelectAllSQL(dbTable)
    /\ UNCHANGED dbTable

Next ==
    \/ CallHardDelete
    \/ CallSoftDelete
    \/ CallUpdate
    \/ CallInsert
    \/ CallSelectOne
    \/ CallSelectMulti
    \/ CallSelectAll

Spec == Init /\ [][Next]_vars

(***************************************************************************)
(* Reading a generated statement.                                          *)
(***************************************************************************)
Generators ==
    {"GenerateHardDeleteSQL", "GenerateSoftDeleteSQL", "GenerateUpdateSQL",
     "GenerateInsertSQL", "GenerateSelectOneSQL", "GenerateSelectMultiSQL",
     "GenerateSelectAllSQL"}

Succeeded == fn \in Generators /\ ~ret.isErr

IsWhereKeyword(x) == x.k = "lit" /\ x.s = " WHERE"
IsAnd(x) == x.k = "lit" /\ x.s \in {" AND", " AND "}
IsConjunct(x) == x.k \in {"cond", "any"}
IsPlaceholderPiece(x) == x.k \in {"cond", "any", "val"}
IsColPiece(x) == x.k = "col"
IsValPiece(x) == x.k = "val"
IsPositionalPiece(x) == IsPlaceholderPiece(x) /\ x.p.sigil = "$"

\* Position of the " WHERE" keyword written on its own, 1 when the keyword
\* is part of the statement's first piece.
WherePos(buf) ==
    LET I == { i \in 1..Len(buf) : IsWhereKeyword(buf[i]) }
    IN IF I = {} THEN 1 ELSE CHOOSE i \in I : \A j \in I : i <= j

\* What follows the WHERE keyword, and what lies between the head and it.
WhereClause(buf) == SubSeq(buf, WherePos(buf) + 1, Len(buf))
SetClause(buf) == SubSeq(buf, 2, WherePos(buf) - 1)

\* w is c1 AND c2 AND ... AND cn with ci a comparison on names[i].
JoinedByAnd(w, names) ==
    /\ Len(names) >= 1
    /\ Len(w) = 2 * Len(names) - 1
    /\ \A i \in 1..Len(w) :
          IF i % 2 = 1 THEN IsConjunct(w[i]) /\ w[i].col = names[(i + 1) \div 2]
          ELSE IsAnd(w[i])

IsNonAuto(c) == ~c.auto
HasDeletedAt(cols) == \E i \in 1..Len(cols) : cols[i].name \in {"deleted_at", "DeletedAt"}
DeletedAtCount(cols) ==
    Cardinality({ i \in 1..Len(cols) : cols[i].name \in {"deleted_at", "DeletedAt"} })

\* The table of the spec's scenarios: users [id PK auto-increment, name, deleted_at].
UsersCols ==
    << [name |-> "id", typ |-> "int", pk |-> TRUE, auto |-> TRUE],
       [name |-> "name", typ |-> "text", pk |-> FALSE, auto |-> FALSE],
       [name |-> "deleted_at", typ |-> "timestamptz", pk |-> FALSE, auto |-> FALSE] >>
UsersTable == [name |-> "users", cols |-> UsersCols]

(***************************************************************************)
(* Claims.                                                                 *)
(***************************************************************************)

\* C1: for a table with at least one primary key, the WHERE clause of
\* hard-delete, update, select-one and select-multi is one conjunct per
\* primary-key column, in column order, consecutive conjuncts separated by
\* exactly one AND, and no AND after the last.
C1_WhereJoinedByAnd ==
    ( /\ fn \in {"GenerateHardDeleteSQL", "GenerateUpdateSQL",
                 "GenerateSelectOneSQL", "GenerateSelectMultiSQL"}
      /\ PrimaryKeyCount(dbTable) >= 1 )
    => /\ ~ret.isErr
       /\ JoinedByAnd(WhereClause(ret.sql), PrimaryKeyNames(dbTable))

\* C2: on a table with no primary-key column every generator returns the
\* no-primary-key error, its message naming the table, and the empty string.
C2_NoPrimaryKeyFails ==
    (fn \in Generators /\ PrimaryKeyCount(dbTable) = 0)
    => /\ ret.isErr
       /\ ret.msg = "table " \o dbTable.name
                      \o " does not have a primary key, cannot generate sql"
       /\ Text(ret.sql) = ""

\* C2 witness: soft-delete was called on a keyless table that has a
\* deleted_at column, and failed.
C2_Witness ==
    /\ fn = "GenerateSoftDeleteSQL"
    /\ PrimaryKeyCount(dbTable) = 0
    /\ HasDeletedAt(dbTable.cols)
    /\ ret.isErr

\* C3: when soft-delete succeeds, its WHERE clause is one conjunct per
\* primary-key column in column order, consecutive conjuncts joined by AND.
C3_SoftDeleteWhereJoinedByAnd ==
    (fn = "GenerateSoftDeleteSQL" /\ PrimaryKeyCount(dbTable) >= 1
        /\ HasDeletedAt(dbTable.cols))
    => /\ ~ret.isErr
       /\ JoinedByAnd(WhereClause(ret.sql), PrimaryKeyNames(dbTable))

\* The SET placeholders of a positional update are $1..$n on the n
\* non-primary-key columns in column order.
UpdateSetNumbered ==
    LET set == SelectSeq(SetClause(ret.sql), IsConjunct)
        nonPk == NonPrimaryKeyNames(dbTable)
    IN /\ Len(set) = Len(nonPk)
       /\ \A i \in 1..Len(set) :
             set[i].col = nonPk[i] /\ ParamText(set[i].p) = "$" \o Itoa(i)

\* The WHERE placeholder of the k-th primary key of a positional update is
\* $<n + step*k>, n the number of non-primary-key columns.
UpdateWhereNumbered(step) ==
    LET wh == SelectSeq(WhereClause(ret.sql), IsConjunct)
        pk == PrimaryKeyNames(dbTable)
        n == Len(NonPrimaryKeyNames(dbTable))
    IN /\ Len(wh) = Len(pk)
       /\ \A k \in 1..Len(wh) :
             wh[k].col = pk[k] /\ ParamText(wh[k].p) = "$" \o Itoa(n + step * k)

\* C4 as stated: a positional update numbers SET $1..$n and gives the k-th
\* primary key the WHERE placeholder $<k+n>.
C4_UpdateWhereOffsetByN ==
    (fn = "GenerateUpdateSQL" /\ ~namedParams /\ PrimaryKeyCount(dbTable) >= 1)
    => ~ret.isErr /\ UpdateSetNumbered /\ UpdateWhereNumbered(1)

\* C4 amended: a positional update numbers SET $1..$n and gives the k-th
\* primary key the WHERE placeholder $<n+2k>.
C4_UpdateWhereOffsetByNPlus2K ==
    (fn = "GenerateUpdateSQL" /\ ~namedParams /\ PrimaryKeyCount(dbTable) >= 1)
    => ~ret.isErr /\ UpdateSetNumbered /\ UpdateWhereNumbered(2)

\* C4 witness: a positional update of a table with a non-key column and two keys.
C4_Witness ==
    /\ fn = "GenerateUpdateSQL" /\ ~namedParams /\ ~ret.isErr
    /\ PrimaryKeyCount(dbTable) >= 2
    /\ Len(NonPrimaryKeyNames(dbTable)) >= 1

\* C5 as stated: positional insert on users [id PK auto, name, deleted_at]
\* returns exactly INSERT INTO "users" ( name, deleted_at) values ( $2, $3 ).
C5_InsertUsersSingleSpace ==
    (fn = "GenerateInsertSQL" /\ ~namedParams /\ dbTable = UsersTable)
    => /\ ~ret.isErr
       /\ Text(ret.sql) = "INSERT INTO \"users\" ( name, deleted_at) values ( $2, $3 )"

\* C5 amended: the same call returns exactly
\* INSERT INTO "users" ( name,  deleted_at) values ( $2, $3 ), the column
\* list separated by a comma and two spaces.
C5_InsertUsersDoubleSpace ==
    (fn = "GenerateInsertSQL" /\ ~namedParams /\ dbTable = UsersTable)
    => /\ ~ret.isErr
       /\ Text(ret.sql) = "INSERT INTO \"users\" ( name,  deleted_at) values ( $2, $3 )"

\* C5 witness: positional insert was called on the users table.
C5_Witness ==
    fn = "GenerateInsertSQL" /\ ~namedParams /\ dbTable = UsersTable /\ ~ret.isErr

\* C6: on a table with a primary key, soft-delete returns the
\* no-deleted-at-column error (naming the table) and the empty string exactly
\* when no column is named deleted_at or DeletedAt; otherwise it succeeds
\* with a non-empty string.
C6_SoftDeleteNeedsDeletedAt ==
    (fn = "GenerateSoftDeleteSQL" /\ PrimaryKeyCount(dbTable) >= 1)
    => IF HasDeletedAt(dbTable.cols)
       THEN ~ret.isErr /\ ret.msg = "" /\ Text(ret.sql) # ""
       ELSE /\ ret.isErr
            /\ ret.msg = "table " \o dbTable.name
                           \o " does not have a deleted at column, cannot generate sql"
            /\ Text(ret.sql) = ""

\* C6 witness: soft-delete failed on a keyed table whose only look-alike
\* column is spelled Deleted_At.
C6_Witness ==
    /\ fn = "GenerateSoftDeleteSQL"
    /\ PrimaryKeyCount(dbTable) >= 1
    /\ \E i \in 1..Len(dbTable.cols) : dbTable.cols[i].name = "Deleted_At"
    /\ ret.isErr

\* C7: a positional soft-delete numbers its placeholders, SET then WHERE,
\* $1..$(d+k) in order of appearance (d deleted-at columns, k primary keys);
\* on users [id PK, name, deleted_at] it returns
\* UPDATE "users" set deleted_at = $1 WHERE id = $2.
C7_SoftDeleteSharedCounter ==
    (fn = "GenerateSoftDeleteSQL" /\ ~namedParams /\ ~ret.isErr)
    => LET ps == SelectSeq(ret.sql, IsPlaceholderPiece) IN
       /\ Len(ps) = DeletedAtCount(dbTable.cols) + PrimaryKeyCount(dbTable)
       /\ \A i \in 1..Len(ps) : ParamText(ps[i].p) = "$" \o Itoa(i)
       /\ Len(SelectSeq(SetClause(ret.sql), IsPlaceholderPiece))
             = DeletedAtCount(dbTable.cols)
       /\ (dbTable = UsersTable
             => Text(ret.sql) = "UPDATE \"users\" set deleted_at = $1 WHERE id = $2")

\* C7 witness: a positional soft-delete that wrote two SET placeholders and
\* at least one WHERE placeholder.
C7_Witness ==
    /\ fn = "GenerateSoftDeleteSQL" /\ ~namedParams /\ ~ret.isErr
    /\ DeletedAtCount(dbTable.cols) = 2
    /\ PrimaryKeyCount(dbTable) >= 1

\* C8: in insert, the column list and the VALUES list both hold exactly the
\* non-auto-increment columns in column order, and a primary-key column among
\* them has the literal default at its position, in both modes.
C8_InsertDefaultForKeys ==
    (fn = "GenerateInsertSQL" /\ PrimaryKeyCount(dbTable) >= 1)
    => LET names == SelectSeq(ret.sql, IsColPiece)
           vals == SelectSeq(ret.sql, IsValPiece)
           kept == SelectSeq(dbTable.cols, IsNonAuto)
       IN /\ ~ret.isErr
          /\ Len(names) = Len(kept)
          /\ Len(vals) = Len(kept)
          /\ \A i \in 1..Len(kept) :
                /\ names[i].col = kept[i].name
                /\ kept[i].pk => ParamText(vals[i].p) = "default" /\ vals[i].p.sigil = ""

\* C8 witness: a named insert on a table with a non-auto-increment primary
\* key that is not the first listed column, and an auto-increment column.
C8_Witness ==
    /\ fn = "GenerateInsertSQL" /\ namedParams /\ ~ret.isErr
    /\ \E i \in 1..Len(dbTable.cols) : dbTable.cols[i].auto
    /\ \E i \in 2..Len(dbTable.cols) :
          /\ dbTable.cols[i].pk /\ ~dbTable.cols[i].auto
          /\ ~dbTable.cols[1].auto

\* C9: a successful named-mode output has no $ placeholder and a successful
\* positional-mode output has no @ placeholder, in every clause, for
\* hard-delete, soft-delete, update, insert, select-one and select-multi;
\* what is written in place of a placeholder is otherwise only default.
C9_NoMixedPlaceholders ==
    (Succeeded /\ fn # "GenerateSelectAllSQL")
    => \A i \in 1..Len(ret.sql) :
          IsPlaceholderPiece(ret.sql[i])
          => \/ ret.sql[i].p.sigil = (IF namedParams THEN "@" ELSE "$")
             \/ ret.sql[i].p = DefaultParam /\ fn = "GenerateInsertSQL"

\* C9 witness: a named soft-delete that wrote a SET and a WHERE placeholder.
C9_Witness ==
    /\ fn = "GenerateSoftDeleteSQL" /\ namedParams /\ ~ret.isErr
    /\ Len(SelectSeq(ret.sql, IsPlaceholderPiece)) >= 2

\* C10: in a successful positional output the numbers of the $ placeholders,
\* in order of appearance, are at least 1 and strictly increasing.
C10_PositionalStrictlyIncreasing ==
    (Succeeded /\ ~namedParams)
    => LET ps == SelectSeq(ret.sql, IsPositionalPiece) IN
       /\ \A i \in 1..Len(ps) :
             ps[i].p.num >= 1 /\ ParamText(ps[i].p) = "$" \o Itoa(ps[i].p.num)
       /\ \A i \in 1..(Len(ps) - 1) : ps[i].p.num < ps[i + 1].p.num

\* C10 witness: a positional update that wrote a SET placeholder and two
\* WHERE placeholders.
C10_Witness ==
    /\ fn = "GenerateUpdateSQL" /\ ~namedParams /\ ~ret.isErr
    /\ Len(SelectSeq(SetClause(ret.sql), IsPositionalPiece)) >= 1
    /\ Len(SelectSeq(WhereClause(ret.sql), IsPositionalPiece)) >= 2

====
